---- MODULE Spec2Model ----
(***************************************************************************)
(* SC.LinkView (frameworks/desktop/views/link_view.js): the anchor view's  *)
(* raw properties, its cacheable computed properties displayBody and       *)
(* hreflang, and the two ways it brings its layer up to date: render (the  *)
(* cold path, a full serialisation into a render context) and update (the  *)
(* warm path, jQuery writes on the existing element).                      *)
(*                                                                         *)
(* A string is a sequence of one-character strings, so that escaping,      *)
(* joining and localising are computed character by character.  The        *)
(* JavaScript null is Null, a value no character sequence equals.          *)
(***************************************************************************)
EXTENDS Integers, Sequences, FiniteSets, TLC

\* ------------------------------------------------------------------ bounds

\* Property writes (set calls) in one behaviour.
MaxWrites == 2

\* The count of compute invocations since the last invalidating write
\* saturates here.
MaxCalls == 2

\* ------------------------------------------------------------------ values

Null == <<"null">>
NullList == <<Null>>

Truthy(v) == v /= Null /\ v /= <<>>

Hi == <<"h", "i">>
Markup == <<"<", "&", ">">>
Salut == <<"<", "y", ">">>

TextValues == {Null, Hi, Markup}
HrefValues == {Null, <<"#">>, <<"/", "a">>}
FileNameValues == {Null, <<"f">>}
LanguageValues == {Null, <<>>, <<"d", "e">>}
PingValues == {NullList, << <<"u">>, <<"v">> >>}
RelValues == {NullList, << <<"a">>, <<"s">> >>}
Blank == <<"_", "b", "l", "a", "n", "k">>
Self == <<"_", "s", "e", "l", "f">>
TargetValues == {Blank, Self}
TypeValues == {Null, <<"t">>}
Locales == {"en", "fr"}

PropertyValues(p) ==
  CASE p = "body" -> TextValues
    [] p = "toolTip" -> TextValues
    [] p = "localize" -> BOOLEAN
    [] p = "escapeHTML" -> BOOLEAN
    [] p = "href" -> HrefValues
    [] p = "fileName" -> FileNameValues
    [] p = "language" -> LanguageValues
    [] p = "ping" -> PingValues
    [] p = "rel" -> RelValues
    [] p = "target" -> TargetValues
    [] p = "type" -> TypeValues

Properties ==
  {"body", "toolTip", "localize", "escapeHTML", "href", "fileName",
   "language", "ping", "rel", "target", "type"}

ComputedKeys == {"displayBody", "displayToolTip", "hreflang"}

NodeFields ==
  {"download", "href", "hreflang", "ping", "rel", "target", "title", "type",
   "body"}

VARIABLES
  raw,            \* the view's raw properties
  locale,         \* SC.Locale.currentLocale
  cache,          \* cached value of each computed property
  valid,          \* whether that cached value may be returned
  calls,          \* history: compute invocations since the last write to a dependency
  read,           \* history: a get was issued since the last write to a dependency
  hasLayer,       \* the view has a layer (backing node)
  layerNeedsUpdate,
  node,           \* attributes and content of the layer
  written,        \* node fields written by the latest render or update
  snap,           \* the values the latest render or update read
  changed,        \* history: snapshot fields whose value the latest update found
                  \* different from the snapshot before it
  hits,           \* history: computed properties the latest render or update read
                  \* from the cache
  last,           \* the latest operation: "render", "update" or "other"
  error,          \* the error the latest operation raised ("none": neither
                  \* render nor update holds a throw)
  nwrites         \* set calls so far

vars ==
  <<raw, locale, cache, valid, calls, read, hasLayer,
    layerNeedsUpdate, node, written, snap, changed, hits, last, error,
    nwrites>>

\* ----------------------------------------------------------- pure helpers

\* SC.Locale.currentLocale.language
LocaleLanguage(l) == IF l = "fr" THEN <<"f", "r">> ELSE <<"e", "n">>

\* SC.String.loc: the current locale's string for the key, or the key itself.
loc(str, l) == IF l = "fr" /\ str = Hi THEN Salut ELSE str

EscapeChar(c) ==
  CASE c = "&" -> <<"&", "a", "m", "p", ";">>
    [] c = "<" -> <<"&", "l", "t", ";">>
    [] c = ">" -> <<"&", "g", "t", ";">>
    [] OTHER -> <<c>>

RECURSIVE EscapeChars(_)
EscapeChars(s) ==
  IF s = <<>> THEN <<>> ELSE EscapeChar(Head(s)) \o EscapeChars(Tail(s))

\* SC.RenderContext.escapeHTML
RenderContext_escapeHTML(text) ==
  IF ~Truthy(text) THEN <<>> ELSE EscapeChars(text)

\* Array.prototype.join(' ')
RECURSIVE join(_)
join(list) ==
  IF list = <<>> THEN <<>>
  ELSE IF Len(list) = 1 THEN Head(list)
  ELSE Head(list) \o <<" ">> \o join(Tail(list))


Min(a, b) == IF a < b THEN a ELSE b

\* ------------------------------------------------- computed properties

\* Faulty variant: the (ret || '') default left out.
displayBody_NoDefault(r, l) ==
  LET ret == r.body
  IN IF Truthy(ret) /\ r.localize THEN loc(ret, l) ELSE ret

\* displayBody: function () {...}.property('body', 'localize').cacheable()
displayBody(r, l) ==
  LET ret == r.body
  IN IF Truthy(ret) /\ r.localize THEN loc(ret, l)
     ELSE IF Truthy(ret) THEN ret ELSE <<>>

\* Faulty variant: 'body' left out of the dependency list.
displayBodyDependencies_NoBody == {"localize"}

displayBodyDependencies == {"body", "localize"}

\* Faulty variant: .cacheable() left out.
displayBodyCacheable_Off == FALSE

displayBodyCacheable == TRUE

\* hreflang: function () {...}.property('language', 'localize').cacheable()
hreflang(r, l) ==
  LET language == r.language
  IN IF Truthy(language) THEN language ELSE LocaleLanguage(l)

hreflangDependencies == {"language", "localize"}

hreflangCacheable == TRUE

\* SC.View's displayToolTip: the toolTip, localized if necessary.
displayToolTip(r, l) ==
  LET ret == r.toolTip
  IN IF Truthy(ret) /\ r.localize THEN loc(ret, l)
     ELSE IF Truthy(ret) THEN ret ELSE <<>>

displayToolTipDependencies == {"toolTip", "localize"}

Compute(k, r, l) ==
  CASE k = "displayBody" -> displayBody(r, l)
    [] k = "hreflang" -> hreflang(r, l)
    [] k = "displayToolTip" -> displayToolTip(r, l)

Dependencies(k) ==
  CASE k = "displayBody" -> displayBodyDependencies
    [] k = "hreflang" -> hreflangDependencies
    [] k = "displayToolTip" -> displayToolTipDependencies

Cacheable(k) ==
  CASE k = "displayBody" -> displayBodyCacheable
    [] k = "hreflang" -> hreflangCacheable
    [] k = "displayToolTip" -> TRUE

\* Faulty variant: 'href' left out of the display properties.
displayProperties_NoHref ==
  {"displayBody", "displayToolTip", "fileName", "hreflang"}

\* The observed properties that cause the view to be rerendered.
displayProperties ==
  {"displayBody", "displayToolTip", "fileName", "href", "hreflang"}

\* A write to p notifies the observers of p and of every computed property
\* that depends on p.
Observed(p) ==
  \/ p \in displayProperties
  \/ \E k \in displayProperties \cap ComputedKeys : p \in Dependencies(k)

\* What this.get(k) returns in the current state.
Value(k) == IF valid[k] THEN cache[k] ELSE Compute(k, raw, locale)

\* The effect of this.get(k), for every k in K, on the cache and its history:
\* an entry that is not valid is computed from the current raw values and the
\* current locale, stored, and marked valid when the property is cacheable.
GetAll(K) ==
  /\ cache' = [k \in ComputedKeys |->
                 IF k \in K /\ ~valid[k] THEN Compute(k, raw, locale)
                 ELSE cache[k]]
  /\ valid' = [k \in ComputedKeys |-> valid[k] \/ (k \in K /\ Cacheable(k))]
  /\ calls' = [k \in ComputedKeys |->
                 IF k \in K /\ ~valid[k] THEN Min(calls[k] + 1, MaxCalls)
                 ELSE calls[k]]
  /\ read' = [k \in ComputedKeys |-> read[k] \/ k \in K]

\* ------------------------------------------------------ render and update

\* The values render reads (lines 318-327); update reads the first six.
ReadValues ==
  [displayBody |-> Value("displayBody"),
   displayToolTip |-> Value("displayToolTip"),
   fileName |-> raw.fileName,
   escapeHTML |-> raw.escapeHTML,
   href |-> raw.href,
   hreflang |-> Value("hreflang"),
   ping |-> raw.ping,
   rel |-> raw.rel,
   target |-> raw.target,
   type |-> raw.type]

Snapshot(v) ==
  [displayBody |-> v.displayBody,
   displayToolTip |-> v.displayToolTip,
   fileName |-> v.fileName,
   escapeHTML |-> v.escapeHTML,
   href |-> v.href,
   hreflang |-> v.hreflang]

\* render: the attributes handed to context.setAttr
renderAttrs(v) ==
  [download |-> v.fileName,
   href |-> v.href,
   hreflang |-> v.hreflang,
   ping |-> IF v.ping /= NullList THEN join(v.ping) ELSE Null,
   rel |-> IF v.rel /= NullList THEN join(v.rel) ELSE Null,
   target |-> v.target,
   title |-> IF Truthy(v.displayToolTip) /\ v.escapeHTML
             THEN RenderContext_escapeHTML(v.displayToolTip)
             ELSE v.displayToolTip,
   type |-> v.type]

\* render: the body handed to context.push
renderBody(v) ==
  IF Truthy(v.displayBody) /\ v.escapeHTML
  THEN RenderContext_escapeHTML(v.displayBody)
  ELSE v.displayBody

\* Faulty variant: the title is not escaped on the warm path.
updateAttrs_RawTitle(v) ==
  [download |-> v.fileName,
   href |-> v.href,
   hreflang |-> v.hreflang,
   title |-> v.displayToolTip]

\* Faulty variant: the warm path writes the file name to href.
updateAttrs_SwappedHref(v) ==
  [download |-> v.fileName,
   href |-> v.fileName,
   hreflang |-> v.hreflang,
   title |-> IF Truthy(v.displayToolTip) /\ v.escapeHTML
             THEN RenderContext_escapeHTML(v.displayToolTip)
             ELSE v.displayToolTip]

\* Faulty variant: the warm path also writes target.
updateAttrs_Target(v) ==
  [download |-> v.fileName,
   href |-> v.href,
   hreflang |-> v.hreflang,
   target |-> v.target,
   title |-> IF Truthy(v.displayToolTip) /\ v.escapeHTML
             THEN RenderContext_escapeHTML(v.displayToolTip)
             ELSE v.displayToolTip]

\* Faulty variant: the warm path forgets download.
updateAttrs_NoDownload(v) ==
  [href |-> v.href,
   hreflang |-> v.hreflang,
   title |-> IF Truthy(v.displayToolTip) /\ v.escapeHTML
             THEN RenderContext_escapeHTML(v.displayToolTip)
             ELSE v.displayToolTip]

\* update: the attributes handed to jqEl.attr
updateAttrs(v) ==
  [download |-> v.fileName,
   href |-> v.href,
   hreflang |-> v.hreflang,
   title |-> IF Truthy(v.displayToolTip) /\ v.escapeHTML
             THEN RenderContext_escapeHTML(v.displayToolTip)
             ELSE v.displayToolTip]

\* Faulty variant: the body is not escaped on the warm path.
updateBody_Raw(v) == v.displayBody

\* update: the body handed to jqEl.html
updateBody(v) ==
  IF Truthy(v.displayBody) /\ v.escapeHTML
  THEN RenderContext_escapeHTML(v.displayBody)
  ELSE v.displayBody

\* The node a cold render produces from the current property values.
ColdNode ==
  [f \in NodeFields |->
     IF f = "body" THEN renderBody(ReadValues) ELSE renderAttrs(ReadValues)[f]]

\* ------------------------------------------------------------------ state

\* The property values of SC.LinkView (toolTip and localize: of SC.View).
Defaults ==
  [body |-> <<>>, toolTip |-> Null, localize |-> FALSE, escapeHTML |-> TRUE,
   href |-> <<"#">>, fileName |-> Null, language |-> Null, ping |-> NullList,
   rel |-> NullList, target |-> Blank, type |-> Null]

NoSnapshot ==
  [displayBody |-> Null, displayToolTip |-> Null, fileName |-> Null,
   escapeHTML |-> TRUE, href |-> Null, hreflang |-> Null]

\* A view as created, before its layer exists: the defaults, with localize
\* and escapeHTML as the creator chose them.
Init ==
  /\ raw \in {[Defaults EXCEPT !.localize = l, !.escapeHTML = e] :
                 l \in BOOLEAN, e \in BOOLEAN}
  /\ locale \in Locales
  /\ cache = [k \in ComputedKeys |-> Null]
  /\ valid = [k \in ComputedKeys |-> FALSE]
  /\ calls = [k \in ComputedKeys |-> 0]
  /\ read = [k \in ComputedKeys |-> FALSE]
  /\ hasLayer = FALSE
  /\ layerNeedsUpdate = FALSE
  /\ node = [f \in NodeFields |-> Null]
  /\ written = {}
  /\ snap = NoSnapshot
  /\ changed = {}
  /\ hits = {}
  /\ last = "other"
  /\ error = "none"
  /\ nwrites = 0

\* this.set(p, v): the write, the invalidation of every computed property that
\* lists p as a dependency, and the notification of the display property
\* observers (displayDidChange, which marks an existing layer as needing an
\* update).  A write of the value the property already holds is a write too.
Set(p, v) ==
  /\ nwrites < MaxWrites
  /\ nwrites' = nwrites + 1
  /\ raw' = [raw EXCEPT ![p] = v]
  /\ valid' = [k \in ComputedKeys |-> valid[k] /\ p \notin Dependencies(k)]
  /\ calls' = [k \in ComputedKeys |->
                 IF p \in Dependencies(k) THEN 0 ELSE calls[k]]
  /\ read' = [k \in ComputedKeys |-> read[k] /\ p \notin Dependencies(k)]
  /\ layerNeedsUpdate' = (layerNeedsUpdate \/ (hasLayer /\ Observed(p)))
  /\ changed' = {}
  /\ hits' = {}
  /\ last' = "other"
  /\ error' = "none"
  /\ written' = {}
  /\ UNCHANGED <<locale, cache, hasLayer, node, snap>>

\* SC.Locale.currentLocale = l: no property of the view is written, so nothing
\* is invalidated and no observer is notified.
SetLocale(l) ==
  /\ l /= locale
  /\ locale' = l
  /\ changed' = {}
  /\ hits' = {}
  /\ last' = "other"
  /\ error' = "none"
  /\ written' = {}
  /\ UNCHANGED <<raw, cache, valid, calls, read, hasLayer,
                 layerNeedsUpdate, node, snap, nwrites>>

\* this.get(k), called from outside the view.
Get(k) ==
  /\ GetAll({k})
  /\ changed' = {}
  /\ hits' = {}
  /\ last' = "other"
  /\ error' = "none"
  /\ written' = {}
  /\ UNCHANGED <<raw, locale, hasLayer, layerNeedsUpdate, node, snap, nwrites>>

\* this.displayDidChange()
DisplayDidChange ==
  /\ hasLayer
  /\ layerNeedsUpdate' = TRUE
  /\ changed' = {}
  /\ hits' = {}
  /\ last' = "other"
  /\ error' = "none"
  /\ written' = {}
  /\ UNCHANGED <<raw, locale, cache, valid, calls, read, hasLayer,
                 node, snap, nwrites>>

\* render(context): the cold path, run when the layer is created.
Render ==
  /\ ~hasLayer
  /\ GetAll(ComputedKeys)
  /\ node' = [f \in NodeFields |->
                IF f = "body" THEN renderBody(ReadValues)
                ELSE renderAttrs(ReadValues)[f]]
  /\ written' = NodeFields
  /\ snap' = Snapshot(ReadValues)
  /\ changed' = DOMAIN snap
  /\ hasLayer' = TRUE
  /\ layerNeedsUpdate' = FALSE
  /\ hits' = {k \in ComputedKeys : valid[k]}
  /\ last' = "render"
  /\ error' = "none"
  /\ UNCHANGED <<raw, locale, nwrites>>

\* update(jqEl): the warm path, run when the layer needs an update.
Update ==
  /\ hasLayer
  /\ layerNeedsUpdate
  /\ GetAll(ComputedKeys)
  /\ node' = [f \in NodeFields |->
                IF f = "body" THEN updateBody(ReadValues)
                ELSE IF f \in DOMAIN updateAttrs(ReadValues)
                THEN updateAttrs(ReadValues)[f]
                ELSE node[f]]
  /\ written' = DOMAIN updateAttrs(ReadValues) \cup {"body"}
  /\ snap' = Snapshot(ReadValues)
  /\ changed' = {f \in DOMAIN snap : Snapshot(ReadValues)[f] /= snap[f]}
  /\ layerNeedsUpdate' = FALSE
  /\ hits' = {k \in ComputedKeys : valid[k]}
  /\ last' = "update"
  /\ error' = "none"
  /\ UNCHANGED <<raw, locale, hasLayer, nwrites>>

Next ==
  \/ \E p \in Properties : \E v \in PropertyValues(p) : Set(p, v)
  \/ \E l \in Locales : SetLocale(l)
  \/ \E k \in ComputedKeys : Get(k)
  \/ DisplayDidChange
  \/ Render
  \/ Update

Spec == Init /\ [][Next]_vars

\* A view created with the class's default properties.
DefaultInit == Init /\ raw = Defaults

\* The liveness of the rerender is checked for a view created with the
\* defaults whose updateable properties are written: ping, rel, target and
\* type must be defined before the layer is created.
UpdateableProperties == Properties \ {"ping", "rel", "target", "type"}

FairNext ==
  \/ \E p \in UpdateableProperties : \E v \in PropertyValues(p) : Set(p, v)
  \/ \E l \in Locales : SetLocale(l)
  \/ \E k \in {"displayBody", "hreflang"} : Get(k)
  \/ DisplayDidChange
  \/ Render
  \/ Update

\* The run loop flushes a scheduled layer update before it ends.
FairSpec == DefaultInit /\ [][FairNext]_vars /\ WF_vars(Update)

\* ------------------------------------------------------------- properties

ClaimKeys == {"displayBody", "hreflang"}

PatchedFields == {"download", "href", "hreflang", "title", "body"}

SetOnceFields == {"ping", "rel", "target", "type"}

Synchronized == last \in {"render", "update"}

StartsWith(s, prefix) ==
  Len(s) >= Len(prefix) /\ SubSeq(s, 1, Len(prefix)) = prefix

\* The text whose HTML-escaped form is s.
RECURSIVE Unescape(_)
Unescape(s) ==
  IF s = <<>> THEN <<>>
  ELSE IF StartsWith(s, <<"&", "a", "m", "p", ";">>)
  THEN <<"&">> \o Unescape(SubSeq(s, 6, Len(s)))
  ELSE IF StartsWith(s, <<"&", "l", "t", ";">>)
  THEN <<"<">> \o Unescape(SubSeq(s, 5, Len(s)))
  ELSE IF StartsWith(s, <<"&", "g", "t", ";">>)
  THEN <<">">> \o Unescape(SubSeq(s, 5, Len(s)))
  ELSE <<Head(s)>> \o Unescape(Tail(s))

\* s is the HTML-escaped form of text: no markup character is left in s,
\* every ampersand of s starts an entity, and s reads back as text.
IsEscapedFormOf(s, text) ==
  /\ \A i \in 1..Len(s) : s[i] \notin {"<", ">"}
  /\ \A i \in 1..Len(s) :
       s[i] = "&" =>
         \/ StartsWith(SubSeq(s, i, Len(s)), <<"&", "a", "m", "p", ";">>)
         \/ StartsWith(SubSeq(s, i, Len(s)), <<"&", "l", "t", ";">>)
         \/ StartsWith(SubSeq(s, i, Len(s)), <<"&", "g", "t", ";">>)
  /\ Unescape(s) = text

\* C1: a get of displayBody or hreflang returns the compute function applied
\* to the latest values of its dependencies (in one of the locales), and a
\* cached value that may be returned was computed after the most recent
\* write to a dependency.
C1_GetNeverStale ==
  \A k \in ClaimKeys :
    /\ \E l \in Locales : Value(k) = Compute(k, raw, l)
    /\ valid[k] => calls[k] = 1

\* C1 witness: after a write to body, displayBody is cached with the new body.
C1_Witness ==
  /\ nwrites >= 1
  /\ valid["displayBody"]
  /\ raw.body = Markup
  /\ cache["displayBody"] = Markup

\* C2: between two invalidating writes compute runs at most once, and exactly
\* once as soon as a get was issued, however many gets follow.
C2_Memoized ==
  \A k \in ClaimKeys :
    /\ calls[k] <= 1
    /\ read[k] => calls[k] = 1

\* C2 witness: after a render and a write to body, an update gets hreflang
\* a second time from the cache and recomputes displayBody once.
C2_Witness ==
  /\ last = "update"
  /\ nwrites >= 1
  /\ "hreflang" \in hits
  /\ "displayBody" \notin hits
  /\ calls["hreflang"] = 1
  /\ calls["displayBody"] = 1

\* C3: after render and after update the body and the title of the node are
\* the HTML-escaped forms of displayBody and displayToolTip when escapeHTML is
\* true and the raw values when it is false, and update leaves the body and
\* title a render would emit.
C3_Escaping ==
  Synchronized =>
    /\ snap.escapeHTML =>
         /\ IsEscapedFormOf(node.body, snap.displayBody)
         /\ IsEscapedFormOf(node.title, snap.displayToolTip)
    /\ ~snap.escapeHTML =>
         /\ node.body = snap.displayBody
         /\ node.title = snap.displayToolTip
    /\ node.body = ColdNode.body
    /\ node.title = ColdNode.title

\* C3 witness: an update escaped a body and a tool tip holding markup.
C3_Witness ==
  /\ last = "update"
  /\ snap.escapeHTML
  /\ snap.displayBody = Markup
  /\ snap.displayToolTip = Markup
  /\ node.title = <<"&", "l", "t", ";", "&", "a", "m", "p", ";", "&", "g", "t", ";">>

\* C4 as stated: an update that finds the snapshot it read identical to the
\* previous one writes nothing to the node.
C4_Original ==
  (last = "update" /\ changed = {}) => written = {}

\* C4 amended: such an update changes no value of the node; it rewrites
\* download, href, hreflang, title and the body with the values they hold.
C4_Amended ==
  [][(last' = "update" /\ changed' = {})
       => (node' = node /\ written' = PatchedFields)]_vars

\* C4 witness: render, then an update with no property written in between.
C4_Witness ==
  /\ last = "update"
  /\ changed = {}
  /\ nwrites = 0

\* C5 as stated: an update whose snapshot differs from the previous one in
\* the tool tip only writes the title and nothing else.
C5_Original ==
  (last = "update" /\ changed = {"displayToolTip"}) => written = {"title"}

\* C5 amended: such an update changes the value of the title only; download,
\* href, hreflang and the body are rewritten with the values they hold and
\* ping, rel, target and type are not written.
C5_Amended ==
  [][(last' = "update" /\ changed' = {"displayToolTip"})
       => /\ \A f \in NodeFields \ {"title"} : node'[f] = node[f]
          /\ node'.title /= node.title
          /\ written' = PatchedFields]_vars

\* C5 witness: an update that found only the tool tip changed.
C5_Witness ==
  /\ last = "update"
  /\ changed = {"displayToolTip"}
  /\ node.title = Hi

\* C6: once the layer exists no step writes or changes ping, rel, target or
\* type of the node.
C6_SetOnce ==
  [][hasLayer
       => /\ \A f \in SetOnceFields : node'[f] = node[f]
          /\ written' \cap SetOnceFields = {}]_vars

\* C6 witness: target and type were written after the render and an update
\* ran; the node still holds the rendered values.
C6_Witness ==
  /\ last = "update"
  /\ node.target /= raw.target
  /\ node.type /= raw.type

\* C7 as stated: after an update the node is the node a cold render would
\* produce from the current property values.
C7_Original ==
  last = "update" => node = ColdNode

\* C7 amended: after an update the node agrees with that cold render on
\* download, href, hreflang, title and the body.
C7_Amended ==
  last = "update" => \A f \in PatchedFields : node[f] = ColdNode[f]

\* C7 witness: an update brought href up to date and left target stale.
C7_Witness ==
  /\ last = "update"
  /\ "href" \in changed
  /\ node.href = raw.href
  /\ node.target /= raw.target

Malformed == raw.href = Null \/ raw.body = Null \/ raw.toolTip = Null

\* C8 as stated: a render or update with href, body or toolTip missing raises
\* MissingFieldError and writes nothing.
C8_Original ==
  (Synchronized /\ Malformed) => (error = "MissingFieldError" /\ written = {})

\* C8 amended: such a render or update raises no error and writes every field
\* it maps: a null href as a null attribute, a null body or toolTip as the
\* empty string.
C8_Amended ==
  (Synchronized /\ Malformed) =>
    /\ error = "none"
    /\ PatchedFields \subseteq written
    /\ raw.href = Null => node.href = Null
    /\ raw.body = Null => node.body = <<>>
    /\ raw.toolTip = Null => node.title = <<>>

\* C8 witness: an update ran with href and body null.
C8_Witness ==
  /\ last = "update"
  /\ raw.href = Null
  /\ raw.body = Null

Displayed(v) ==
  [displayBody |-> v.displayBody,
   displayToolTip |-> v.displayToolTip,
   fileName |-> v.fileName,
   href |-> v.href,
   hreflang |-> v.hreflang]

\* C9: with a layer, a change of a display property's value schedules an
\* update, and a scheduled update (also one scheduled by displayDidChange) is
\* eventually run and reads the values current at that time; a change of
\* escapeHTML schedules nothing and leaves the node as it is.
C9_Rerender ==
  /\ [][/\ (hasLayer /\ Displayed(ReadValues) /= Displayed(snap))'
            => layerNeedsUpdate'
        /\ raw'.escapeHTML /= raw.escapeHTML
            => (layerNeedsUpdate' = layerNeedsUpdate /\ node' = node)]_vars
  /\ (hasLayer /\ layerNeedsUpdate)
        ~> (last = "update" /\ Displayed(snap) = Displayed(ReadValues))

\* C9 witness: escapeHTML was changed after the latest update of the layer;
\* no update is scheduled and the body keeps its old escaping.
C9_Witness ==
  /\ hasLayer
  /\ ~layerNeedsUpdate
  /\ raw.escapeHTML /= snap.escapeHTML
  /\ snap.displayBody = Markup
  /\ node.body /= ColdNode.body

\* C10 as stated: every get of hreflang returns language when it is set and
\* otherwise the language of the locale current at the time of the get, and
\* render and update write that value.
C10_Original ==
  LET expected == IF Truthy(raw.language) THEN raw.language
                  ELSE LocaleLanguage(locale)
  IN /\ Value("hreflang") = expected
     /\ Synchronized => node.hreflang = expected

====
